---- MODULE Spec2Model ----
(***************************************************************************)
(* Model of the order-tracking relay (src/app.js): the GET /tracking       *)
(* handler, carrier detection, the ShipStation lookup, the fallback        *)
(* generator createDefaultTrackingInfo and formatTrackingResponse.         *)
(*                                                                         *)
(* Strings that the code inspects character by character (tracking         *)
(* numbers) are sequences of one-character strings; other strings are TLA+ *)
(* strings.  A JavaScript object is a record that has a field exactly when *)
(* the object has a defined, non-null property of that name.  Query        *)
(* parameters are strings (spec.md section 3, TrackingQuery).              *)
(* A Date is a whole number of hours since 1 January of year 0 of a        *)
(* calendar of 365-day years, read in the server's time zone, which is     *)
(* taken to be UTC; minutes and below are left untouched by every Date     *)
(* operation the code uses and are not represented.                        *)
(***************************************************************************)
EXTENDS Integers, Sequences, FiniteSets, TLC

VARIABLES apiKey, now, ticks, pc, req, carrier, trackingUrl,
          mappedCarrierCode, upstreamCalls, outcome, trackingInfo, res, sentAt,
          prev

vars == <<apiKey, now, ticks, pc, req, carrier, trackingUrl,
          mappedCarrierCode, upstreamCalls, outcome, trackingInfo, res, sentAt,
          prev>>

\* Number of clock advances explored.
MaxTicks == 1

----------------------------------------------------------------------------
(* Characters and strings                                                  *)

\* Characters with UTF-16 code units 32..126; AsciiTable[k] has code k + 31.
\* The grave accent, code 96, is written U+0060.
AsciiTable ==
  <<" ", "!", "\"", "#", "$", "%", "&", "'", "(", ")", "*", "+", ",", "-",
    ".", "/", "0", "1", "2", "3", "4", "5", "6", "7", "8", "9", ":", ";",
    "<", "=", ">", "?", "@", "A", "B", "C", "D", "E", "F", "G", "H", "I",
    "J", "K", "L", "M", "N", "O", "P", "Q", "R", "S", "T", "U", "V", "W",
    "X", "Y", "Z", "[", "\\", "]", "^", "_", "U+0060", "a", "b", "c", "d", "e",
    "f", "g", "h", "i", "j", "k", "l", "m", "n", "o", "p", "q", "r", "s",
    "t", "u", "v", "w", "x", "y", "z", "{", "|", "}", "~">>

S_usps ==
  <<"u", "s", "p", "s">>

S_fedex ==
  <<"f", "e", "d", "e", "x">>

S_ups ==
  <<"u", "p", "s">>

S_dhl ==
  <<"d", "h", "l">>

S_canada_post ==
  <<"c", "a", "n", "a", "d", "a", "_", "p", "o", "s", "t">>

S_unknown ==
  <<"u", "n", "k", "n", "o", "w", "n">>

S_stamps_com ==
  <<"s", "t", "a", "m", "p", "s", "_", "c", "o", "m">>

S_dhl_express ==
  <<"d", "h", "l", "_", "e", "x", "p", "r", "e", "s", "s">>

S_UPS ==
  <<"U", "P", "S">>

S_acme ==
  <<"a", "c", "m", "e">>

S_constructor ==
  <<"c", "o", "n", "s", "t", "r", "u", "c", "t", "o", "r">>

S_toString ==
  <<"t", "o", "S", "t", "r", "i", "n", "g">>

S_PRE_TRANSIT ==
  <<"P", "R", "E", "_", "T", "R", "A", "N", "S", "I", "T">>

S_SHIPPED ==
  <<"S", "H", "I", "P", "P", "E", "D">>

S_IN_TRANSIT ==
  <<"I", "N", "_", "T", "R", "A", "N", "S", "I", "T">>

S_OUT_FOR_DELIVERY ==
  <<"O", "U", "T", "_", "F", "O", "R", "_", "D", "E", "L", "I", "V", "E",
    "R", "Y">>

S_DELIVERED ==
  <<"D", "E", "L", "I", "V", "E", "R", "E", "D">>

S_ACCEPTED ==
  <<"A", "C", "C", "E", "P", "T", "E", "D">>

S_Pre_Transit ==
  <<"P", "r", "e", "-", "T", "r", "a", "n", "s", "i", "t">>

S_Shipped ==
  <<"S", "h", "i", "p", "p", "e", "d">>

S_In_Transit ==
  <<"I", "n", " ", "T", "r", "a", "n", "s", "i", "t">>

S_Out_for_Delivery ==
  <<"O", "u", "t", " ", "f", "o", "r", " ", "D", "e", "l", "i", "v", "e",
    "r", "y">>

S_Delivered ==
  <<"D", "e", "l", "i", "v", "e", "r", "e", "d">>

S_Accepted ==
  <<"A", "c", "c", "e", "p", "t", "e", "d">>

S_pre_transit ==
  <<"p", "r", "e", "_", "t", "r", "a", "n", "s", "i", "t">>

S_shipped ==
  <<"s", "h", "i", "p", "p", "e", "d">>

S_in_transit ==
  <<"i", "n", "_", "t", "r", "a", "n", "s", "i", "t">>

S_out_for_delivery ==
  <<"o", "u", "t", "_", "f", "o", "r", "_", "d", "e", "l", "i", "v", "e",
    "r", "y">>

S_delivered ==
  <<"d", "e", "l", "i", "v", "e", "r", "e", "d">>

S_Unknown ==
  <<"U", "n", "k", "n", "o", "w", "n">>

\* "9400111899223197428490" (USPS: 9[4-5] + 20 digits)
TnUsps94 ==
  <<"9", "4", "0", "0", "1", "1", "1", "8", "9", "9", "2", "2", "3", "1",
    "9", "7", "4", "2", "8", "4", "9", "0">>

\* "9611111111111111111111" (96 + 20 digits: USPS family and FedEx family both match)
TnUsps96 ==
  <<"9", "6", "1", "1", "1", "1", "1", "1", "1", "1", "1", "1", "1", "1",
    "1", "1", "1", "1", "1", "1", "1", "1">>

\* "EC123456789US" (USPS international)
TnUspsIntl ==
  <<"E", "C", "1", "2", "3", "4", "5", "6", "7", "8", "9", "U", "S">>

\* " E-123456789-- " (E, non-digit, 9 digits, 2 non-digits, padded with blanks)
TnUspsE ==
  <<" ", "E", "-", "1", "2", "3", "4", "5", "6", "7", "8", "9", "-", "-", " ">>

\* "420123459212345678901234567890" (420 + zip prefix)
TnUsps420 ==
  <<"4", "2", "0", "1", "2", "3", "4", "5", "9", "2", "1", "2", "3", "4",
    "5", "6", "7", "8", "9", "0", "1", "2", "3", "4", "5", "6", "7", "8",
    "9", "0">>

\* "M123456789AB" (one-letter service prefix)
TnUspsM ==
  <<"M", "1", "2", "3", "4", "5", "6", "7", "8", "9", "A", "B">>

\* "123456789012" (12 digits)
TnFedex12 ==
  <<"1", "2", "3", "4", "5", "6", "7", "8", "9", "0", "1", "2">>

\* "123456789012345" (15 digits)
TnFedex15 ==
  <<"1", "2", "3", "4", "5", "6", "7", "8", "9", "0", "1", "2", "3", "4", "5">>

\* "1Z999AA10123456784" (spec.md scenario 1)
TnUps1Z ==
  <<"1", "Z", "9", "9", "9", "A", "A", "1", "0", "1", "2", "3", "4", "5",
    "6", "7", "8", "4">>

\* " 1z999aa10123456784" (lower case with a leading blank)
TnUpsLower ==
  <<" ", "1", "z", "9", "9", "9", "a", "a", "1", "0", "1", "2", "3", "4",
    "5", "6", "7", "8", "4">>

\* "T1234567890" (T + 10 digits)
TnUpsT ==
  <<"T", "1", "2", "3", "4", "5", "6", "7", "8", "9", "0">>

\* "927R1234567890123456" (927R + 16 digits)
TnUps927R ==
  <<"9", "2", "7", "R", "1", "2", "3", "4", "5", "6", "7", "8", "9", "0",
    "1", "2", "3", "4", "5", "6">>

\* "1234567890" (10 digits)
TnDhl10 ==
  <<"1", "2", "3", "4", "5", "6", "7", "8", "9", "0">>

\* "12345678901" (11 digits)
TnDhl11 ==
  <<"1", "2", "3", "4", "5", "6", "7", "8", "9", "0", "1">>

\* "AB123456789CA" (Canada Post S10 form: the USPS family matches it too)
TnCaPost ==
  <<"A", "B", "1", "2", "3", "4", "5", "6", "7", "8", "9", "C", "A">>

\* "1234567890123456" (16 digits)
TnCa16 ==
  <<"1", "2", "3", "4", "5", "6", "7", "8", "9", "0", "1", "2", "3", "4",
    "5", "6">>

\* "ABC123" (spec.md scenario 2: no family matches)
TnAbc ==
  <<"A", "B", "C", "1", "2", "3">>

\* "12345678901234567" (17 digits: no family matches)
TnDigits17 ==
  <<"1", "2", "3", "4", "5", "6", "7", "8", "9", "0", "1", "2", "3", "4",
    "5", "6", "7">>

\* String.prototype.charCodeAt(0) of a one-character string.
CharCodes ==
  [c \in {AsciiTable[k] : k \in 1..Len(AsciiTable)} |->
     31 + CHOOSE k \in 1..Len(AsciiTable) : AsciiTable[k] = c]

charCodeAt(c) == CharCodes[c]

fromCharCode(n) == AsciiTable[n - 31]

\* String.prototype.toUpperCase, one character.
toUpperChar(c) ==
  LET n == charCodeAt(c)
  IN  IF n >= 97 /\ n <= 122 THEN fromCharCode(n - 32) ELSE c

toUpperCase(s) == [k \in 1..Len(s) |-> toUpperChar(s[k])]

IsWhiteSpace(c) == c = " "

RECURSIVE trimStart(_)
trimStart(s) ==
  IF s # <<>> /\ IsWhiteSpace(Head(s)) THEN trimStart(Tail(s)) ELSE s

RECURSIVE trimEnd(_)
trimEnd(s) ==
  IF s # <<>> /\ IsWhiteSpace(s[Len(s)])
  THEN trimEnd(SubSeq(s, 1, Len(s) - 1)) ELSE s

\* String.prototype.trim
trim(s) == trimEnd(trimStart(s))

----------------------------------------------------------------------------
(* Regular expressions of detectCarrier, all anchored with ^ and $         *)

\* \d and [0-9]
IsDigit(c) == charCodeAt(c) >= 48 /\ charCodeAt(c) <= 57

\* [A-Z]
IsUpper(c) == charCodeAt(c) >= 65 /\ charCodeAt(c) <= 90

\* s[i..i+n-1] matches \d{n}
Digits(s, i, n) == \A k \in i..(i + n - 1) : IsDigit(s[k])

\* s[i..i+n-1] matches [A-Z]{n}
Uppers(s, i, n) == \A k \in i..(i + n - 1) : IsUpper(s[k])

\* s[i..i+n-1] matches \D{n}
NonDigits(s, i, n) == \A k \in i..(i + n - 1) : ~IsDigit(s[k])

\* s[i..i+n-1] matches [0-9A-Z]{n}
UpperAlnums(s, i, n) == \A k \in i..(i + n - 1) : IsDigit(s[k]) \/ IsUpper(s[k])

\* s[i..] starts with the literal lit
Lit(s, i, lit) == \A k \in 1..Len(lit) : s[i + k - 1] = lit[k]

\* (91|92|93|94|95|96) at position i
Usps9x(s, i) == s[i] = "9" /\ s[i + 1] \in {"1", "2", "3", "4", "5", "6"}

\* /^9[4-5]\d{20}$/
ReUsps1(s) == Len(s) = 22 /\ s[1] = "9" /\ s[2] \in {"4", "5"} /\ Digits(s, 3, 20)

\* /^(91|92|93|94|95|96)\d{20}$/
ReUsps2(s) == Len(s) = 22 /\ Usps9x(s, 1) /\ Digits(s, 3, 20)

\* /^[A-Z]{2}\d{9}[A-Z]{2}$/
ReUsps3(s) == Len(s) = 13 /\ Uppers(s, 1, 2) /\ Digits(s, 3, 9) /\ Uppers(s, 12, 2)

\* /^E\D{1}\d{9}\D{2}$/
ReUsps4(s) ==
  Len(s) = 13 /\ s[1] = "E" /\ NonDigits(s, 2, 1) /\ Digits(s, 3, 9)
              /\ NonDigits(s, 12, 2)

\* /^[A-Z]{2}\d{9}US$/
ReUsps5(s) ==
  Len(s) = 13 /\ Uppers(s, 1, 2) /\ Digits(s, 3, 9) /\ Lit(s, 12, <<"U", "S">>)

\* /^(420\d{5})?(91|92|93|94|95|96)\d{20}$/
ReUsps6(s) ==
  \/ Len(s) = 22 /\ Usps9x(s, 1) /\ Digits(s, 3, 20)
  \/ Len(s) = 30 /\ Lit(s, 1, <<"4", "2", "0">>) /\ Digits(s, 4, 5)
                 /\ Usps9x(s, 9) /\ Digits(s, 11, 20)

\* /^(M|P[A-Z]?|D[A-Z]?|LK|E[A-Z]|V[A-Z]?|R[A-Z]?|CP|CJ|LC|LJ)\d{9}[A-Z]{2}$/
ReUsps7(s) ==
  \/ Len(s) = 12 /\ s[1] \in {"M", "P", "D", "V", "R"}
                 /\ Digits(s, 2, 9) /\ Uppers(s, 11, 2)
  \/ Len(s) = 13 /\ ( (s[1] \in {"P", "D", "E", "V", "R"} /\ IsUpper(s[2]))
                      \/ <<s[1], s[2]>> \in {<<"L", "K">>, <<"C", "P">>,
                                             <<"C", "J">>, <<"L", "C">>,
                                             <<"L", "J">>} )
                 /\ Digits(s, 3, 9) /\ Uppers(s, 12, 2)

\* /^[0-9]{12,14}$/
ReFedex1(s) == Len(s) \in 12..14 /\ Digits(s, 1, Len(s))

\* /^6\d{11,12}$/
ReFedex2(s) == Len(s) \in 12..13 /\ s[1] = "6" /\ Digits(s, 2, Len(s) - 1)

\* /^(96\d{20}|\d{15})$/
ReFedex3(s) ==
  \/ Len(s) = 22 /\ Lit(s, 1, <<"9", "6">>) /\ Digits(s, 3, 20)
  \/ Len(s) = 15 /\ Digits(s, 1, 15)

\* /^1Z[0-9A-Z]{16}$/
ReUps1(s) == Len(s) = 18 /\ Lit(s, 1, <<"1", "Z">>) /\ UpperAlnums(s, 3, 16)

\* /^(T\d{10}|927R\d{16})$/
ReUps2(s) ==
  \/ Len(s) = 11 /\ s[1] = "T" /\ Digits(s, 2, 10)
  \/ Len(s) = 20 /\ Lit(s, 1, <<"9", "2", "7", "R">>) /\ Digits(s, 5, 16)

\* /^(K\d{10})$/
ReUps3(s) == Len(s) = 11 /\ s[1] = "K" /\ Digits(s, 2, 10)

\* /^\d{10,11}$/
ReDhl1(s) == Len(s) \in 10..11 /\ Digits(s, 1, Len(s))

\* /^[0-9]{10}$/
ReDhl2(s) == Len(s) = 10 /\ Digits(s, 1, 10)

\* /^([A-Z]{2}\d{9}CA)$/
ReCa1(s) ==
  Len(s) = 13 /\ Uppers(s, 1, 2) /\ Digits(s, 3, 9) /\ Lit(s, 12, <<"C", "A">>)

\* /^(\d{16})$/
ReCa2(s) == Len(s) = 16 /\ Digits(s, 1, 16)

UspsPatterns(tn) ==
  \/ ReUsps1(tn) \/ ReUsps2(tn) \/ ReUsps3(tn) \/ ReUsps4(tn)
  \/ ReUsps5(tn) \/ ReUsps6(tn) \/ ReUsps7(tn)

FedexPatterns(tn) == ReFedex1(tn) \/ ReFedex2(tn) \/ ReFedex3(tn)

UpsPatterns(tn) == ReUps1(tn) \/ ReUps2(tn) \/ ReUps3(tn)

DhlPatterns(tn) == ReDhl1(tn) \/ ReDhl2(tn)

CanadaPostPatterns(tn) == ReCa1(tn) \/ ReCa2(tn)

\* JavaScript null or undefined where the code holds a string: a value that
\* is no string of characters.
Null == <<"<null>">>

\* detectCarrier with the FedEx family tried before the USPS family.
detectCarrierFedexFirst(trackingNumber) ==
  LET tn == toUpperCase(trim(trackingNumber))
  IN  IF FedexPatterns(tn) THEN S_fedex
      ELSE IF UspsPatterns(tn) THEN S_usps
      ELSE IF UpsPatterns(tn) THEN S_ups
      ELSE IF DhlPatterns(tn) THEN S_dhl
      ELSE IF CanadaPostPatterns(tn) THEN S_canada_post
      ELSE Null

detectCarrier(trackingNumber) ==
  LET tn == toUpperCase(trim(trackingNumber))
  IN  IF UspsPatterns(tn) THEN S_usps
      ELSE IF FedexPatterns(tn) THEN S_fedex
      ELSE IF UpsPatterns(tn) THEN S_ups
      ELSE IF DhlPatterns(tn) THEN S_dhl
      ELSE IF CanadaPostPatterns(tn) THEN S_canada_post
      ELSE Null

----------------------------------------------------------------------------
(* Date                                                                    *)

DaysInMonth == <<31, 28, 31, 30, 31, 30, 31, 31, 30, 31, 30, 31>>

RECURSIVE DaysBeforeMonth(_)
DaysBeforeMonth(m) ==
  IF m = 1 THEN 0 ELSE DaysBeforeMonth(m - 1) + DaysInMonth[m - 1]

DaysPerYear == DaysBeforeMonth(12) + DaysInMonth[12]

Day(t) == t \div 24

YearFromTime(t) == Day(t) \div DaysPerYear

DayWithinYear(t) == Day(t) % DaysPerYear

MonthFromTime(t) ==
  CHOOSE m \in 1..12 :
    /\ DaysBeforeMonth(m) <= DayWithinYear(t)
    /\ DayWithinYear(t) < DaysBeforeMonth(m) + DaysInMonth[m]

\* Date.prototype.getDate: the day of the month, from 1.
getDate(t) == DayWithinYear(t) - DaysBeforeMonth(MonthFromTime(t)) + 1

\* Date.prototype.getHours
getHours(t) == t % 24

\* Date.prototype.setDate: the day of the month is replaced by date, which
\* may lie outside the month; year and month stay as they were and the
\* result is normalised.
setDate(t, date) ==
  ( YearFromTime(t) * DaysPerYear + DaysBeforeMonth(MonthFromTime(t))
    + date - 1 ) * 24 + getHours(t)

\* Date.prototype.setHours: the hour of the day is replaced by hour, which
\* may be negative.
setHours(t, hour) == Day(t) * 24 + hour

\* Date.prototype.toISOString: year, month, day of the month and hour.
toISOString(t) == <<YearFromTime(t), MonthFromTime(t), getDate(t), getHours(t)>>

\* null or undefined where the code holds a timestamp string.
NoDate == <<>>

----------------------------------------------------------------------------
(* Lookup tables                                                           *)

\* Properties that every plain object inherits; their values are functions.
\* A one-element sequence holding a text stands for a value that is used
\* only as a whole: here, the text the function turns into when it is
\* concatenated to a string.
ObjectPrototype ==
  S_constructor :> <<"function Object() { [native code] }">> @@
  S_toString :> <<"function toString() { [native code] }">>

IsFunction(v) == \E k \in DOMAIN ObjectPrototype : ObjectPrototype[k] = v

\* table[key] for a plain object table: an own property, else an inherited
\* one, else undefined.
Property(table, key) ==
  IF key \in DOMAIN table THEN table[key]
  ELSE IF key \in DOMAIN ObjectPrototype THEN ObjectPrototype[key]
  ELSE Null

CARRIER_CODE_MAP ==
  S_usps :> S_stamps_com @@
  S_fedex :> S_fedex @@
  S_ups :> S_ups @@
  S_dhl :> S_dhl_express @@
  S_canada_post :> S_canada_post

TRACKING_URL_PATTERNS ==
  S_usps :> <<"https://tools.usps.com/go/TrackConfirmAction?tLabels=">> @@
  S_fedex :> <<"https://www.fedex.com/fedextrack/?trknbr=">> @@
  S_ups :> <<"https://www.ups.com/track?tracknum=">> @@
  S_dhl :> <<"https://www.dhl.com/en/express/tracking.html?AWB=">> @@
  S_canada_post :>
    <<"https://www.canadapost-postescanada.ca/track-reperage/en#/search?searchFor=">>

\* A string, null or undefined value is truthy unless it is null, undefined
\* or the empty string.
Truthy(s) == s # Null /\ s # <<>>

\* String.prototype.toLowerCase, one character and whole string.
toLowerChar(c) ==
  LET n == charCodeAt(c)
  IN  IF n >= 65 /\ n <= 90 THEN fromCharCode(n + 32) ELSE c

toLowerCase(s) == [k \in 1..Len(s) |-> toLowerChar(s[k])]

\* String.prototype.replace(pattern, replacement) with a one-character
\* string pattern: the first occurrence only.
RECURSIVE replace(_, _, _)
replace(s, pattern, replacement) ==
  IF s = <<>> THEN <<>>
  ELSE IF Head(s) = pattern THEN <<replacement>> \o Tail(s)
  ELSE <<Head(s)>> \o replace(Tail(s), pattern, replacement)

----------------------------------------------------------------------------
(* createDefaultTrackingInfo                                               *)

possibleStatuses ==
  <<S_PRE_TRANSIT, S_SHIPPED, S_IN_TRANSIT, S_OUT_FOR_DELIVERY, S_DELIVERED>>

\* trackingNumber.split('').reduce((acc, char) => acc + char.charCodeAt(0), 0)
RECURSIVE reduce(_, _)
reduce(chars, acc) ==
  IF chars = <<>> THEN acc
  ELSE reduce(Tail(chars), acc + charCodeAt(Head(chars)))

\* hash that leaves out the last character.
hashDropsLast(trackingNumber) ==
  reduce(SubSeq(trackingNumber, 1, Len(trackingNumber) - 1), 0)

hash(trackingNumber) == reduce(trackingNumber, 0)

\* possibleStatuses[statusIndex]; JavaScript indexes from 0.
chosenStatus(trackingNumber) ==
  possibleStatuses[(hash(trackingNumber) % Len(possibleStatuses)) + 1]

DestinationCity ==
  [city_locality |-> "Destination City", state_province |-> "State",
   postal_code |-> "12345", country_code |-> "US"]

TransitLocation ==
  [city_locality |-> "Transit Location", state_province |-> "State",
   postal_code |-> "12345", country_code |-> "US"]

OriginCity ==
  [city_locality |-> "Origin City", state_province |-> "State",
   postal_code |-> "54321", country_code |-> "US"]

Event(t, description, place) ==
  [occurred_at |-> toISOString(t), description |-> description,
   city_locality |-> place.city_locality,
   state_province |-> place.state_province,
   postal_code |-> place.postal_code, country_code |-> place.country_code]

\* The events pushed for status at the instant t, in push order.
defaultEventsOldestFirst(status, t) ==
  <<Event(setDate(t, getDate(t) - 3), "Shipping Label Created", OriginCity)>>
  \o (IF status \in {S_DELIVERED, S_OUT_FOR_DELIVERY, S_IN_TRANSIT, S_SHIPPED}
      THEN <<Event(setDate(t, getDate(t) - 2), "Shipment Picked Up", OriginCity)>>
      ELSE <<>>)
  \o (IF status \in {S_DELIVERED, S_OUT_FOR_DELIVERY, S_IN_TRANSIT}
      THEN <<Event(setDate(t, getDate(t) - 1), "In Transit", TransitLocation)>>
      ELSE <<>>)
  \o (IF status \in {S_DELIVERED, S_OUT_FOR_DELIVERY}
      THEN <<Event(setHours(t, getHours(t) - 5), "Out for Delivery",
                   DestinationCity)>>
      ELSE <<>>)
  \o (IF status = S_DELIVERED
      THEN <<Event(t, "Delivered, Front Door", DestinationCity)>>
      ELSE <<>>)

defaultEvents(status, t) ==
  (IF status = S_DELIVERED
   THEN <<Event(t, "Delivered, Front Door", DestinationCity)>>
   ELSE <<>>)
  \o (IF status \in {S_DELIVERED, S_OUT_FOR_DELIVERY}
      THEN <<Event(setHours(t, getHours(t) - 5), "Out for Delivery",
                   DestinationCity)>>
      ELSE <<>>)
  \o (IF status \in {S_DELIVERED, S_OUT_FOR_DELIVERY, S_IN_TRANSIT}
      THEN <<Event(setDate(t, getDate(t) - 1), "In Transit", TransitLocation)>>
      ELSE <<>>)
  \o (IF status \in {S_DELIVERED, S_OUT_FOR_DELIVERY, S_IN_TRANSIT, S_SHIPPED}
      THEN <<Event(setDate(t, getDate(t) - 2), "Shipment Picked Up", OriginCity)>>
      ELSE <<>>)
  \o <<Event(setDate(t, getDate(t) - 3), "Shipping Label Created", OriginCity)>>

\* estimated_delivery_date of the generated record.
estimatedDelivery(status, t) ==
  IF status = S_DELIVERED THEN NoDate
  ELSE toISOString(
         IF status = S_PRE_TRANSIT THEN setDate(t, getDate(t) + 5)
         ELSE IF status = S_SHIPPED THEN setDate(t, getDate(t) + 3)
         ELSE IF status = S_IN_TRANSIT THEN setDate(t, getDate(t) + 2)
         ELSE IF status = S_OUT_FOR_DELIVERY THEN setDate(t, getDate(t))
         ELSE t)

\* createDefaultTrackingInfo whose status index is seeded by the clock too.
createDefaultTrackingInfoClockSeeded(trackingNumber, carrierCode, t) ==
  LET status ==
        possibleStatuses[((hash(trackingNumber) + t) % Len(possibleStatuses)) + 1]
      events == defaultEvents(status, t)
  IN  [tracking_number |-> trackingNumber,
       carrier_code |-> carrierCode,
       status_code |-> status,
       status_description |-> toLowerCase(replace(status, "_", " ")),
       estimated_delivery_date |-> estimatedDelivery(status, t),
       ship_date |-> IF events = <<>> THEN NoDate
                     ELSE events[Len(events)].occurred_at,
       events |-> events]

\* createDefaultTrackingInfo(trackingNumber, carrierCode), where t is the
\* value of new Date() at the call.
createDefaultTrackingInfo(trackingNumber, carrierCode, t) ==
  LET status == chosenStatus(trackingNumber)
      events == defaultEvents(status, t)
  IN  [tracking_number |-> trackingNumber,
       carrier_code |-> carrierCode,
       status_code |-> status,
       status_description |-> toLowerCase(replace(status, "_", " ")),
       estimated_delivery_date |-> estimatedDelivery(status, t),
       ship_date |-> IF events = <<>> THEN NoDate
                     ELSE events[Len(events)].occurred_at,
       events |-> events]

----------------------------------------------------------------------------
(* formatTrackingResponse                                                  *)

statusMap ==
  S_IN_TRANSIT :> S_In_Transit @@
  S_DELIVERED :> S_Delivered @@
  S_OUT_FOR_DELIVERY :> S_Out_for_Delivery @@
  S_SHIPPED :> S_Shipped @@
  S_ACCEPTED :> S_Accepted @@
  S_PRE_TRANSIT :> S_Pre_Transit

\* trackingData is falsy.
NoInfo == [absent |-> TRUE]

\* trackingData[field] is a truthy string.
HasString(trackingData, field) ==
  field \in DOMAIN trackingData /\ Truthy(trackingData[field])

\* trackingData[field] is a truthy timestamp.
HasDate(trackingData, field) ==
  field \in DOMAIN trackingData /\ trackingData[field] # NoDate

\* t is the value of new Date() at the call.
formatTrackingResponse(trackingData, trackingNumber, carrierCode, t) ==
  IF trackingData = NoInfo
  THEN [tracking_number |-> trackingNumber, carrier_code |-> carrierCode,
        status |-> S_Unknown, events |-> <<>>]
  ELSE
    LET status ==
          IF HasString(trackingData, "tracking_status")
          THEN trackingData.tracking_status
          ELSE IF HasString(trackingData, "status_description")
          THEN trackingData.status_description
          ELSE IF HasString(trackingData, "status_code")
          THEN IF Truthy(Property(statusMap, trackingData.status_code))
               THEN Property(statusMap, trackingData.status_code)
               ELSE trackingData.status_code
          ELSE S_Unknown
    IN  [tracking_number |->
           IF HasString(trackingData, "tracking_number")
           THEN trackingData.tracking_number ELSE trackingNumber,
         carrier_code |->
           IF HasString(trackingData, "carrier_code")
           THEN trackingData.carrier_code ELSE carrierCode,
         status |-> status,
         status_description |->
           IF HasString(trackingData, "status_description")
           THEN trackingData.status_description ELSE status,
         estimated_delivery_date |->
           IF HasDate(trackingData, "estimated_delivery_date")
           THEN trackingData.estimated_delivery_date ELSE NoDate,
         ship_date |->
           IF HasDate(trackingData, "ship_date")
           THEN trackingData.ship_date ELSE toISOString(t),
         events |->
           IF "events" \in DOMAIN trackingData
           THEN trackingData.events ELSE <<>>]

----------------------------------------------------------------------------
(* GET /tracking                                                           *)

\* req.query: each parameter is a string, or Null when it is not given.
TrackingNumbers ==
  {Null, <<>>,
   TnUsps94, TnUsps96, TnUspsIntl, TnUspsE, TnUsps420, TnUspsM,
   TnFedex12, TnFedex15,
   TnUps1Z, TnUpsLower, TnUpsT, TnUps927R,
   TnDhl10, TnDhl11, TnCaPost, TnCa16, TnAbc, TnDigits17}

Carriers == {Null, <<>>, S_usps, S_UPS, S_acme, S_constructor, S_unknown}

\* Every tracking number without a carrier, and every carrier with a missing,
\* an empty, a recognised and an unrecognised tracking number.
Queries ==
  [tracking_number : TrackingNumbers, carrier : {Null}]
  \cup [tracking_number : {Null, <<>>, TnUsps94, TnAbc}, carrier : Carriers]

NoQuery == [absent |-> TRUE]

\* Instants at which the server may be started: 2 January 03:00 of year 1
\* and 30 March 12:00 of year 2.
StartTimes ==
  {(DaysPerYear + 1) * 24 + 3,
   (2 * DaysPerYear + DaysBeforeMonth(3) + 29) * 24 + 12}

\* What the shipments the aggregator returns may carry.
Shipments ==
  {[shipmentStatus |-> Null, shipDate |-> NoDate],
   [shipmentStatus |-> S_shipped, shipDate |-> <<1, 1, 1, 0>>],
   [shipmentStatus |-> S_delivered, shipDate |-> NoDate]}

\* A reply body without a shipments property.
EmptyReply == [total |-> 0]

\* How the axios call of shipStationRequest may end.
UpstreamOutcomes ==
  {[kind |-> "network_error"], [kind |-> "non_2xx"]}
  \cup {[kind |-> "ok", data |-> d] :
          d \in {EmptyReply, [shipments |-> <<>>]}
                \cup {[shipments |-> <<s>>] : s \in Shipments}}

NoOutcome == [kind |-> "none"]

NoResponse == [status |-> 0]

\* The request before had another query, or there was none.
NoPrevious == [res |-> NoResponse, at |-> 0, info |-> NoInfo]

\* !tracking_number, taken for "the parameter is missing".
IsMissingOnly(tracking_number) == tracking_number = Null

\* !tracking_number
IsMissing(tracking_number) == ~Truthy(tracking_number)

BadRequest ==
  [status |-> 400,
   body |-> [error |-> "Missing tracking number", status |-> "error"]]

InternalError(message) ==
  [status |-> 500,
   body |-> [error |-> "Failed to fetch tracking information",
             details |-> message, status |-> "error"]]

\* Auto-detect carrier if not provided.
resolveCarrier(q) ==
  IF ~Truthy(q.carrier) THEN detectCarrier(q.tracking_number) ELSE q.carrier

\* Generate direct tracking URL.
directTrackingUrl(c, tracking_number) ==
  IF Truthy(c) /\ Truthy(Property(TRACKING_URL_PATTERNS, c))
  THEN Property(TRACKING_URL_PATTERNS, c) \o tracking_number
  ELSE Null

\* Map carrier code for ShipStation if needed.
mapCarrierCode(c) ==
  IF Truthy(c)
  THEN IF Truthy(Property(CARRIER_CODE_MAP, toLowerCase(c)))
       THEN Property(CARRIER_CODE_MAP, toLowerCase(c))
       ELSE c
  ELSE Null

\* The lookup is tried whenever a carrier is resolved, credential or not.
credentialsAvailableIgnoresKey(key, mapped) == Truthy(mapped)

\* SHIPSTATION_API_KEY && mappedCarrierCode
credentialsAvailable(key, mapped) == key /\ Truthy(mapped)

\* shipStationRequest: response.data, or the error it rethrows.
shipStationRequest(out) ==
  IF out.kind = "network_error"
  THEN [threw |-> TRUE, message |-> "Network Error"]
  ELSE IF out.kind = "non_2xx"
  THEN [threw |-> TRUE, message |-> "Request failed with status code 500"]
  ELSE [threw |-> FALSE, data |-> out.data]

\* The body of the inner try block: trackingInfo after it, or the error.
lookupShipment(out, tracking_number, mapped) ==
  LET labelsResponse == shipStationRequest(out)
  IN  IF labelsResponse.threw THEN labelsResponse
      ELSE IF /\ "shipments" \in DOMAIN labelsResponse.data
              /\ Len(labelsResponse.data.shipments) > 0
      THEN LET shipment == labelsResponse.data.shipments[1]
               status == IF Truthy(shipment.shipmentStatus)
                         THEN shipment.shipmentStatus ELSE S_Unknown
           IN  [threw |-> FALSE,
                info |-> [tracking_number |-> tracking_number,
                          carrier_code |-> mapped,
                          status |-> status,
                          status_description |-> status,
                          ship_date |-> shipment.shipDate,
                          events |-> <<>>]]
      ELSE [threw |-> FALSE, info |-> NoInfo]

\* The inner try without its catch: the error goes on to the outer catch.
enrichFromUpstreamUncaught(out, tracking_number, mapped) ==
  lookupShipment(out, tracking_number, mapped)

\* The inner try/catch: an error is logged and trackingInfo stays null.
enrichFromUpstream(out, tracking_number, mapped) ==
  LET r == lookupShipment(out, tracking_number, mapped)
  IN  IF r.threw THEN [threw |-> FALSE, info |-> NoInfo] ELSE r

\* res.json(response): JSON.stringify leaves out a property whose value is
\* a function.
json(response) ==
  IF IsFunction(response.carrier_code)
  THEN [f \in DOMAIN response \ {"carrier_code"} |-> response[f]]
  ELSE response

\* carrier || 'unknown'
carrierOrUnknown(c) == IF Truthy(c) THEN c ELSE S_unknown

\* If no actual data, create a fallback: trackingInfo after that step.
orFallback(info, tracking_number, c, t) ==
  IF info = NoInfo
  THEN createDefaultTrackingInfo(tracking_number, carrierOrUnknown(c), t)
  ELSE info

\* From "If no actual data" to the end of the handler, outer catch included;
\* r is what the inner try left, t the value of new Date().
respond(r, tracking_number, c, url, t) ==
  IF r.threw THEN InternalError(r.message)
  ELSE
    LET response ==
          formatTrackingResponse(orFallback(r.info, tracking_number, c, t),
                                 tracking_number, carrierOrUnknown(c), t)
    IN  [status |-> 200,
         body |-> json(response @@ [tracking_url |-> url])]

----------------------------------------------------------------------------
(* The server                                                              *)

Init ==
  /\ apiKey \in BOOLEAN
  /\ now \in StartTimes
  /\ ticks = 0
  /\ pc = "idle"
  /\ req = NoQuery
  /\ carrier = Null
  /\ trackingUrl = Null
  /\ mappedCarrierCode = Null
  /\ upstreamCalls = 0
  /\ outcome = NoOutcome
  /\ trackingInfo = NoInfo
  /\ res = NoResponse
  /\ sentAt = 0
  /\ prev = NoPrevious

\* A request arrives and the handler runs up to its first await, or to its
\* end when it makes no upstream call.  prev keeps the response to the
\* request before when that request had the same query.
Receive(q) ==
  /\ pc \in {"idle", "done"}
  /\ req' = q
  /\ prev' = IF pc = "done" /\ req = q
             THEN [res |-> res, at |-> sentAt, info |-> trackingInfo]
             ELSE NoPrevious
  /\ outcome' = NoOutcome
  /\ IF IsMissing(q.tracking_number)
     THEN /\ carrier' = q.carrier
          /\ trackingInfo' = NoInfo
          /\ trackingUrl' = Null
          /\ mappedCarrierCode' = Null
          /\ upstreamCalls' = 0
          /\ res' = BadRequest
          /\ sentAt' = now
          /\ pc' = "done"
     ELSE LET c == resolveCarrier(q)
              url == directTrackingUrl(c, q.tracking_number)
              mapped == mapCarrierCode(c)
          IN  /\ carrier' = c
              /\ trackingUrl' = url
              /\ mappedCarrierCode' = mapped
              /\ IF credentialsAvailable(apiKey, mapped)
                 THEN /\ upstreamCalls' = 1
                      /\ trackingInfo' = NoInfo
                      /\ res' = NoResponse
                      /\ sentAt' = sentAt
                      /\ pc' = "awaiting"
                 ELSE /\ upstreamCalls' = 0
                      /\ trackingInfo' =
                           orFallback(NoInfo, q.tracking_number, c, now)
                      /\ res' = respond([threw |-> FALSE, info |-> NoInfo],
                                        q.tracking_number, c, url, now)
                      /\ sentAt' = now
                      /\ pc' = "done"
  /\ UNCHANGED <<apiKey, now, ticks>>

\* The upstream call ends and the handler runs to its end.
UpstreamReturns(out) ==
  /\ pc = "awaiting"
  /\ outcome' = out
  /\ LET r == enrichFromUpstream(out, req.tracking_number, mappedCarrierCode)
     IN  /\ trackingInfo' =
               IF r.threw THEN NoInfo
               ELSE orFallback(r.info, req.tracking_number, carrier, now)
         /\ res' = respond(r, req.tracking_number, carrier, trackingUrl, now)
  /\ sentAt' = now
  /\ pc' = "done"
  /\ UNCHANGED <<apiKey, now, ticks, req, carrier, trackingUrl,
                 mappedCarrierCode, upstreamCalls, prev>>

\* An hour passes.
Tick ==
  /\ ticks < MaxTicks
  /\ now' = now + 1
  /\ ticks' = ticks + 1
  /\ UNCHANGED <<apiKey, pc, req, carrier, trackingUrl, mappedCarrierCode,
                 upstreamCalls, outcome, trackingInfo, res, sentAt, prev>>

Next ==
  \/ \E q \in Queries : Receive(q)
  \/ \E out \in UpstreamOutcomes : UpstreamReturns(out)
  \/ Tick

Spec == Init /\ [][Next]_vars

----------------------------------------------------------------------------
(* Properties                                                              *)

\* The request in req has been answered.
Answered == pc = "done"

\* The request in req was answered with 200 from a generated record.
FromFallback ==
  Answered /\ res.status = 200 /\ "status_code" \in DOMAIN trackingInfo

\* C1: a request whose tracking_number is missing or empty is answered with
\* 400 and the body {error: "Missing tracking number", status: "error"}, and
\* no upstream call is made for it.
C1_MissingTrackingNumber ==
  (pc # "idle" /\ req.tracking_number \in {Null, <<>>}) =>
    /\ pc = "done"
    /\ res.status = 400
    /\ res.body = [error |-> "Missing tracking number", status |-> "error"]
    /\ upstreamCalls = 0

C1_Witness ==
  /\ Answered /\ apiKey
  /\ req = [tracking_number |-> <<>>, carrier |-> S_usps]
  /\ res.status = 400

\* The upstream lookup of the request in req failed or found no shipment.
UpstreamUnavailable ==
  /\ Answered
  /\ \/ outcome.kind \in {"network_error", "non_2xx"}
     \/ /\ outcome.kind = "ok"
        /\ \/ "shipments" \notin DOMAIN outcome.data
           \/ outcome.data.shipments = <<>>

\* C2: when the upstream lookup throws, returns a non-2xx response or returns
\* no matching shipment, the response is 200 with a body built from the
\* generated record, never 500.
C2_UpstreamFailureFallsBack ==
  UpstreamUnavailable =>
    /\ res.status = 200
    /\ FromFallback
    /\ trackingInfo.tracking_number = req.tracking_number
    /\ res.body.events = trackingInfo.events
    /\ res.body.events # <<>>
    /\ res.body.status_description = trackingInfo.status_description
    /\ res.body.estimated_delivery_date = trackingInfo.estimated_delivery_date

C2_Witness ==
  /\ Answered /\ outcome.kind = "non_2xx"
  /\ res.status = 200 /\ Len(res.body.events) = 5

\* Two requests in a row had the same query and both were answered from a
\* generated record.
RepeatedFallback ==
  /\ FromFallback
  /\ prev.res.status = 200
  /\ "status_code" \in DOMAIN prev.info

\* C3 as stated: two requests with identical query parameters and no
\* upstream data get identical bodies, whenever they are made.
C3_SameBodyAtAnyInstants ==
  RepeatedFallback => prev.res.body = res.body

WithoutEventTime(e) == [f \in DOMAIN e \ {"occurred_at"} |-> e[f]]

\* A response body without its timestamps.
WithoutTimes(body) ==
  [f \in DOMAIN body \ {"estimated_delivery_date", "ship_date", "events"} |->
     body[f]]
  @@ [events |-> [k \in 1..Len(body.events) |->
                    WithoutEventTime(body.events[k])],
      has_estimate |-> body.estimated_delivery_date # NoDate]

\* C3 amended: two requests with identical query parameters and no upstream
\* data get bodies that are identical apart from the timestamps, and
\* identical when both are answered at the same instant.
C3_SameBodyUpToTimestamps ==
  RepeatedFallback =>
    /\ WithoutTimes(prev.res.body) = WithoutTimes(res.body)
    /\ prev.info.status_code = trackingInfo.status_code
    /\ (prev.at = sentAt => prev.res.body = res.body)

C3_Witness ==
  /\ RepeatedFallback
  /\ prev.at < sentAt
  /\ prev.res.body # res.body

IsUnknownStatus(status) == toLowerCase(status) = S_unknown

IsDeliveredStatus(status) == toLowerCase(status) = S_delivered

\* C4: in every 200 body, estimated_delivery_date is null when the status is
\* delivered; when it is not delivered, estimated_delivery_date is null only
\* if the status is unknown; events is empty only if the status is unknown.
C4_RecordInvariant ==
  (Answered /\ res.status = 200) =>
    /\ IsDeliveredStatus(res.body.status) =>
         res.body.estimated_delivery_date = NoDate
    /\ (~IsDeliveredStatus(res.body.status)
        /\ res.body.estimated_delivery_date = NoDate) =>
         IsUnknownStatus(res.body.status)
    /\ res.body.events = <<>> => IsUnknownStatus(res.body.status)

\* carrier_code of a body has an entry in the per-carrier URL table.
HasUrlEntry(body) ==
  /\ "carrier_code" \in DOMAIN body
  /\ body.carrier_code \in
       {S_usps, S_fedex, S_ups, S_dhl, S_canada_post}

\* C5: in every 200 body, tracking_url is null if and only if carrier_code is
\* unknown or has no entry in the per-carrier URL table; otherwise it is
\* that carrier's base URL followed by the raw tracking number.
C5_TrackingUrl ==
  (Answered /\ res.status = 200) =>
    /\ res.body.tracking_url = Null <=> ~HasUrlEntry(res.body)
    /\ HasUrlEntry(res.body) =>
         res.body.tracking_url =
           TRACKING_URL_PATTERNS[res.body.carrier_code] \o req.tracking_number

\* C6: the status of a 200 body built from a generated record is one of
\* pre_transit, shipped, in_transit, out_for_delivery, delivered, and is the
\* canonical value of the status the generator chose.
C6_CanonicalStatus ==
  FromFallback =>
    /\ res.body.status \in
         {S_pre_transit, S_shipped, S_in_transit, S_out_for_delivery,
          S_delivered}
    /\ res.body.status = toLowerCase(trackingInfo.status_code)

\* The carrier of the first family, in the order USPS, FedEx, UPS, DHL,
\* Canada Post, that matches the trimmed upper-cased tracking number; Null
\* when none does.
FirstMatchingFamily(tracking_number) ==
  LET tn == toUpperCase(trim(tracking_number))
      families == <<S_usps, S_fedex, S_ups, S_dhl, S_canada_post>>
      matches == <<UspsPatterns(tn), FedexPatterns(tn), UpsPatterns(tn),
                   DhlPatterns(tn), CanadaPostPatterns(tn)>>
      hits == {i \in 1..5 : matches[i]}
  IN  IF hits = {} THEN Null
      ELSE families[CHOOSE i \in hits : \A j \in hits : i <= j]

\* The request in req passed validation and named no carrier, so that the
\* carrier was detected.
Detected == pc # "idle" /\ Truthy(req.tracking_number) /\ ~Truthy(req.carrier)

\* C7: detection returns the carrier of the first matching family in the
\* order USPS, FedEx, UPS, DHL, Canada Post, and unknown (null in the code,
\* reported as carrier_code "unknown") when no family matches.
C7_FirstMatchingFamily ==
  Detected =>
    /\ carrier = FirstMatchingFamily(req.tracking_number)
    /\ carrierOrUnknown(carrier) \in
         {S_usps, S_fedex, S_ups, S_dhl, S_canada_post, S_unknown}
    /\ (carrier = Null /\ FromFallback) => res.body.carrier_code = S_unknown

\* A number that the USPS family and the FedEx family both match.
C7_Witness ==
  /\ Detected /\ Answered
  /\ req.tracking_number = TnUsps96
  /\ FedexPatterns(TnUsps96)
  /\ carrier = S_usps

\* The sum of the character codes of s[1..n].
RECURSIVE CodeSum(_, _)
CodeSum(s, n) == IF n = 0 THEN 0 ELSE CodeSum(s, n - 1) + CharCodes[s[n]]

\* C8: the status the generator chooses is the element at index (sum of the
\* character codes of the tracking number) mod 5 of PRE_TRANSIT, SHIPPED,
\* IN_TRANSIT, OUT_FOR_DELIVERY, DELIVERED, whatever the carrier.
C8_StatusFromCodeSum ==
  FromFallback =>
    trackingInfo.status_code =
      <<S_PRE_TRANSIT, S_SHIPPED, S_IN_TRANSIT, S_OUT_FOR_DELIVERY,
        S_DELIVERED>>[
          (CodeSum(req.tracking_number, Len(req.tracking_number)) % 5) + 1]

\* "ABC123" has code sum 348, and 348 mod 5 = 3.
C8_Witness ==
  /\ FromFallback
  /\ req = [tracking_number |-> TnAbc, carrier |-> S_acme]
  /\ trackingInfo.status_code = S_OUT_FOR_DELIVERY

\* C9: at most one upstream call is made for a request, and none unless the
\* request passed validation, an API credential is configured and a carrier
\* was resolved; a failed call is not retried.
C9_UpstreamCalls ==
  /\ upstreamCalls <= 1
  /\ pc = "awaiting" => upstreamCalls = 1
  /\ upstreamCalls = 1 =>
       /\ Truthy(req.tracking_number)
       /\ apiKey
       /\ \/ Truthy(req.carrier)
          \/ FirstMatchingFamily(req.tracking_number) # Null
  /\ (pc # "idle" /\ upstreamCalls = 0) => outcome = NoOutcome

C9_Witness ==
  /\ Answered /\ upstreamCalls = 1 /\ outcome.kind = "network_error"
  /\ req.carrier = Null

\* Timestamp a is earlier than timestamp b.
Earlier(a, b) ==
  \E k \in 1..4 : a[k] < b[k] /\ \A j \in 1..(k - 1) : a[j] = b[j]

\* The events of a status, newest first: description and age in hours.
ExpectedTimeline ==
  <<[description |-> "Delivered, Front Door", age |-> 0],
    [description |-> "Out for Delivery", age |-> 5],
    [description |-> "In Transit", age |-> 24],
    [description |-> "Shipment Picked Up", age |-> 48],
    [description |-> "Shipping Label Created", age |-> 72]>>

\* C10: a generated record whose status is at index i (from 0) of
\* PRE_TRANSIT, SHIPPED, IN_TRANSIT, OUT_FOR_DELIVERY, DELIVERED holds i+1
\* events, the status's own event first and the label-created event last,
\* with strictly decreasing timestamps now, now - 5 hours, now - 1 day,
\* now - 2 days, now - 3 days; ship_date is the timestamp of the last event.
C10_EventTimeline ==
  FromFallback =>
    LET events == res.body.events
        n == CHOOSE i \in 1..5 : possibleStatuses[i] = trackingInfo.status_code
    IN  /\ Len(events) = n
        /\ \A k \in 1..n :
             /\ events[k].description = ExpectedTimeline[5 - n + k].description
             /\ events[k].occurred_at =
                  toISOString(sentAt - ExpectedTimeline[5 - n + k].age)
        /\ \A k \in 1..(n - 1) :
             Earlier(events[k + 1].occurred_at, events[k].occurred_at)
        /\ events[n].description = "Shipping Label Created"
        /\ res.body.ship_date = events[n].occurred_at

\* A delivered record generated on 2 January: the label was created on
\* 30 December of the year before.
C10_Witness ==
  /\ FromFallback
  /\ trackingInfo.status_code = S_DELIVERED
  /\ Len(res.body.events) = 5
  /\ res.body.events[1].occurred_at = <<1, 1, 2, 3>>
  /\ res.body.ship_date = <<0, 12, 30, 3>>

====
